---------------------------- MODULE Spec2Model ----------------------------
(***************************************************************************)
(* Diamond price predictor: the Streamlit page script (app.py), the figure *)
(* generator (utils/visualizer.py) and the feature pipeline                *)
(* (utils/preprocessing.py).                                               *)
(*                                                                         *)
(* Numbers are fixed point.  Carat, percentages and lengths are held in    *)
(* hundredths (carat 1.00 = 100, depth 61.5 % = 6150, 6.5 mm = 650),       *)
(* volumes in hundredths of a cubic millimetre, natural logarithms in      *)
(* 1/10000, the model's log-price output in 1/1000 and prices in cents.    *)
(***************************************************************************)
EXTENDS Integers, Sequences, FiniteSets, TLC

VARIABLES
    files,          \* models/ directory: content of the .txt and the .pkl file
    model,          \* app.py: the cached result of load_diamond_model()
    u,              \* widget values: cut, color, clarity, carat, depth, table
    predict_btn,    \* app.py: the RUN PREDICTION button of this run
    pc,             \* position of the page script / of the driver
    specs,          \* app.py: specs returned by generate_diamond_geometry
    fig,            \* app.py: the figure handed to st.plotly_chart
    input_df,       \* app.py: the positional one-row frame (columns 0..6)
    input_data,     \* app.py: the named frame after the reorder
    predict_calls,  \* frames handed to model.predict in this run
    price,          \* app.py: price of this run (cents), -1 before a prediction
    error,          \* exception caught by the try/except of this run, or "none"
    display,        \* elements the page has shown in this run, in order
    variant,        \* which figure generator the driver invokes
    figs,           \* figures returned by the invocations of the generator
    frames          \* the two feature frames built from the same inputs

vars == <<files, model, u, predict_btn, pc, specs, fig, input_df, input_data,
          predict_calls, price, error, display, variant, figs, frames>>

(***************************************************************************)
(* Grades and their encodings                                              *)
(***************************************************************************)
Cuts == {"Ideal", "Premium", "Very Good", "Good", "Fair"}
Colors == {"D", "E", "F", "G", "H", "I", "J"}
Clarities == {"IF", "VVS1", "VVS2", "VS1", "VS2", "SI1", "SI2", "I1"}

cut_map ==
    [c \in Cuts |->
        CASE c = "Fair" -> 1 [] c = "Good" -> 2 [] c = "Very Good" -> 3
          [] c = "Premium" -> 4 [] c = "Ideal" -> 5]

color_map ==
    [c \in Colors |->
        CASE c = "J" -> 1 [] c = "I" -> 2 [] c = "H" -> 3 [] c = "G" -> 4
          [] c = "F" -> 5 [] c = "E" -> 6 [] c = "D" -> 7]

clarity_map ==
    [c \in Clarities |->
        CASE c = "I1" -> 1 [] c = "SI2" -> 2 [] c = "SI1" -> 3 [] c = "VS2" -> 4
          [] c = "VS1" -> 5 [] c = "VVS2" -> 6 [] c = "VVS1" -> 7 [] c = "IF" -> 8]

CUT_MAP ==
    [c \in Cuts |->
        CASE c = "Fair" -> 1 [] c = "Good" -> 2 [] c = "Very Good" -> 3
          [] c = "Premium" -> 4 [] c = "Ideal" -> 5]

COLOR_MAP ==
    [c \in Colors |->
        CASE c = "J" -> 1 [] c = "I" -> 2 [] c = "H" -> 3 [] c = "G" -> 4
          [] c = "F" -> 5 [] c = "E" -> 6 [] c = "D" -> 7]

CLARITY_MAP ==
    [c \in Clarities |->
        CASE c = "I1" -> 1 [] c = "SI2" -> 2 [] c = "SI1" -> 3 [] c = "VS2" -> 4
          [] c = "VS1" -> 5 [] c = "VVS2" -> 6 [] c = "VVS1" -> 7 [] c = "IF" -> 8]

(***************************************************************************)
(* Widgets (app.py lines 129-137).  Defaults is what the first run of the  *)
(* page sees; the other values the runs are explored over are the ends of  *)
(* the grade lists, the low end of the depth slider and the carat values   *)
(* either side of the 2.5 ct threshold.                                    *)
(***************************************************************************)
Defaults ==
    [cut |-> "Ideal", color |-> "G", clarity |-> "VS2",
     carat |-> 100, depth |-> 6150, table |-> 5700]

WidgetValues ==
    [cut     |-> {"Ideal", "Fair"},
     color   |-> {"G", "D"},
     clarity |-> {"VS2", "IF", "I1"},
     carat   |-> {100, 250, 251},
     depth   |-> {6150, 5000},
     table   |-> {5700, 8000}]

Widgets == {"cut", "color", "clarity", "carat", "depth", "table"}

(***************************************************************************)
(* Fixed-point arithmetic                                                  *)
(***************************************************************************)
\* a * b / s without leaving 32 bits
MulDiv(a, b, s) == (a \div s) * b + ((a % s) * b) \div s

RECURSIVE CbrtSearch(_, _, _)
CbrtSearch(n, lo, hi) ==
    IF lo >= hi THEN lo
    ELSE LET mid == (lo + hi + 1) \div 2
         IN  IF mid * mid * mid <= n THEN CbrtSearch(n, mid, hi)
             ELSE CbrtSearch(n, lo, mid - 1)

\* largest d with d^3 <= n, for n < 1290^3
Cbrt(n) == CbrtSearch(n, 0, 1289)

RECURSIVE Pow2Below(_, _)
\* largest 100 * 2^k <= y, starting from p = 100 * 2^j <= y
Pow2Below(y, p) == IF 2 * p <= y THEN Pow2Below(y, 2 * p) ELSE p

RECURSIVE Log2Of(_)
Log2Of(q) == IF q <= 1 THEN 0 ELSE 1 + Log2Of(q \div 2)

\* np.log1p of x hundredths, in 1/10000:
\* ln(1+x) = k ln 2 + 2 atanh((m-1)/(m+1)) with 1+x = m 2^k, 1 <= m < 2
log1p(x) ==
    LET y  == 100 + x
        p  == Pow2Below(y, 100)
        k  == Log2Of(p \div 100)
        t  == ((y - p) * 10000) \div (y + p)
        t2 == (t * t) \div 10000
        t3 == (t2 * t) \div 10000
        t5 == (t3 * t2) \div 10000
        t7 == (t5 * t2) \div 10000
    IN  k * 6931 + 2 * (t + t3 \div 3 + t5 \div 5 + t7 \div 7)

\* e^n in cents, n = 0..11
ExpInt == <<100, 272, 739, 2009, 5460, 14841, 40343, 109663, 298096, 810308,
            2202647, 5987414>>

RECURSIVE ExpSeries(_, _, _)
\* sum of the Taylor terms of e^(f/1000) from term number k on, in 1/10000
ExpSeries(f, term, k) ==
    IF term = 0 \/ k > 12 THEN 0
    ELSE term + ExpSeries(f, (term * f) \div (k * 1000), k + 1)

\* np.expm1 of p thousandths (0 <= p < 12000), in cents
expm1(p) ==
    MulDiv(ExpInt[(p \div 1000) + 1], ExpSeries(p % 1000, 10000, 1), 10000) - 100

\* cos and sin of np.linspace(0, 2*pi, 9)[:-1], in 1/10000
Cos8 == <<10000, 7071, 0, -7071, -10000, -7071, 0, 7071>>
Sin8 == <<0, 7071, 10000, 7071, 0, -7071, -10000, -7071>>

\* r * c / 10000 rounded toward zero
Scale(r, c) == IF c >= 0 THEN (r * c) \div 10000 ELSE -((r * (-c)) \div 10000)

(***************************************************************************)
(* app.py: figure geometry                                                 *)
(***************************************************************************)
Idx8 == 1..8

\* Nxt without the wrap-around: the last segment is joined to itself
NxtNoWrap(i) == IF i = 8 THEN 8 ELSE i + 1

\* i -> (i+1) % 8 on the one-based index
Nxt(i) == (i % 8) + 1

\* 6.5 * carat ** (1/3); 6.5^3 = 274.625
Diameter(carat) == Cbrt(2746250 * carat)

get_diamond_color(grade) ==
    CASE grade = "D" -> "#FFFFFF" [] grade = "E" -> "#F0F8FF"
      [] grade = "F" -> "#F0FFFF" [] grade = "G" -> "#F5F5F5"
      [] grade = "H" -> "#FFFACD" [] grade = "I" -> "#FFF8DC"
      [] grade = "J" -> "#F0E68C" [] OTHER -> "#FFFFFF"

\* rng.uniform(low, high): the two ends of the half-open range [low, high)
Uniform(low, high) == {low, high - 1}

\* app.py's severity table
AppSeverity(clarity_grade) ==
    CASE clarity_grade = "IF" -> 0 [] clarity_grade = "VVS1" -> 2
      [] clarity_grade = "VVS2" -> 5 [] clarity_grade = "VS1" -> 10
      [] clarity_grade = "VS2" -> 20 [] clarity_grade = "SI1" -> 40
      [] clarity_grade = "SI2" -> 80 [] clarity_grade = "I1" -> 150
      [] OTHER -> 0

\* (None, None, None)
NoInclusions == [count |-> 0, point |-> <<>>]

\* The results generate_inclusions can return: three arrays of `count` draws.
\* `point` is one entry (inc_x[k], inc_y[k], inc_z[k]) of the arrays.
generate_inclusions(clarity_grade, radius_limit) ==
    LET count == AppSeverity(clarity_grade)
    IN  IF count = 0 THEN {NoInclusions}
        ELSE {[count |-> count, point |-> <<ix, iy, iz>>] :
                ix \in Uniform(-((radius_limit * 7) \div 10), (radius_limit * 7) \div 10),
                iy \in Uniform(-((radius_limit * 7) \div 10), (radius_limit * 7) \div 10),
                iz \in Uniform(0, (radius_limit * 8) \div 10)}

generate_diamond_geometry(table_pct, depth_pct, carat) ==
    LET diameter     == Diameter(carat)
        radius       == diameter \div 2
        total_depth  == (diameter * depth_pct) \div 10000
        table_radius == (radius * table_pct) \div 10000
        z_table      == (total_depth * 35) \div 100
        z_girdle     == 0
        z_culet      == -((total_depth * 65) \div 100)
        tx == [i \in Idx8 |-> Scale(table_radius, Cos8[i])]
        ty == [i \in Idx8 |-> Scale(table_radius, Sin8[i])]
        tz == [i \in Idx8 |-> z_table]
        gx == [i \in Idx8 |-> Scale(radius, Cos8[i])]
        gy == [i \in Idx8 |-> Scale(radius, Sin8[i])]
        gz == [i \in Idx8 |-> z_girdle]
        T(i) == <<tx[i], ty[i], tz[i]>>
        G(i) == <<gx[i], gy[i], gz[i]>>
        culet  == <<0, 0, z_culet>>
        centre == <<0, 0, z_table>>
        \* the five add_line calls of segment i
        SegLines(i) == << <<T(i), T(Nxt(i))>>, <<G(i), G(Nxt(i))>>,
                          <<T(i), G(i)>>, <<G(i), culet>>, <<centre, T(i)>> >>
    IN  [x |-> <<0>> \o tx \o gx \o <<0>>,
         y |-> <<0>> \o ty \o gy \o <<0>>,
         z |-> <<z_table>> \o tz \o gz \o <<z_culet>>,
         lines |-> SegLines(1) \o SegLines(2) \o SegLines(3) \o SegLines(4)
                   \o SegLines(5) \o SegLines(6) \o SegLines(7) \o SegLines(8),
         specs |-> [x |-> diameter, y |-> diameter, z |-> total_depth,
                    vol |-> (diameter * diameter * total_depth + 5000) \div 10000],
         radius |-> radius,
         z_table |-> z_table, z_girdle |-> z_girdle, z_culet |-> z_culet,
         table_radius |-> table_radius]

(***************************************************************************)
(* app.py: model loading and feature engineering                           *)
(***************************************************************************)
None == [kind |-> "None", features |-> <<>>]
NoFile == [kind |-> "absent", features |-> <<>>]

FeatureNames ==
    {"log_carat", "log_volume", "table", "depth",
     "int_carat_cut", "int_carat_color", "int_carat_clarity"}

\* the order app.py writes the seven columns in
AppOrder ==
    <<"log_carat", "log_volume", "table", "depth",
      "int_carat_cut", "int_carat_color", "int_carat_clarity">>

\* the order utils/preprocessing.py writes them in
PipelineOrder ==
    <<"log_carat", "log_volume", "table", "depth",
      "int_carat_color", "int_carat_clarity", "int_carat_cut">>

\* a model trained on the raw carat column
RawCaratOrder ==
    <<"carat", "log_volume", "table", "depth",
      "int_carat_color", "int_carat_clarity", "int_carat_cut">>

\* what models/lgbm_diamond_model_new.txt can hold
TxtContents ==
    {[kind |-> "Booster", features |-> f] : f \in {AppOrder, PipelineOrder, RawCaratOrder}}

\* what models/lgbm_diamond_model_new.pkl can unpickle to: a Booster, or the
\* scikit-learn wrapper, which has no feature_name() method
PklContents ==
    {[kind |-> "Booster", features |-> PipelineOrder],
     [kind |-> "LGBMRegressor", features |-> PipelineOrder]}

load_diamond_model(fs) ==
    IF fs.txt # NoFile THEN fs.txt
    ELSE IF fs.pkl # NoFile THEN fs.pkl
    ELSE None

\* Truthy as it would be if the page tested nothing
TruthyAlways(m) == TRUE

\* truth value of the model object: `if model`, `predict_btn or model`
Truthy(m) == m # None

\* `model is None`
IsNone(m) == m = None

EmptyFrame == [columns |-> <<>>, row |-> <<>>]

\* value of column `name` in the one-row frame
Lookup(frame, name) ==
    frame.row[CHOOSE i \in 1..Len(frame.columns) : frame.columns[i] = name]

\* lines 178-188: the seven engineered values, by feature name
Engineer(w, sp) ==
    LET log_carat  == log1p(w.carat)
        log_volume == log1p(sp.vol)
        c_score    == cut_map[w.cut]
        col_score  == color_map[w.color]
        cla_score  == clarity_map[w.clarity]
    IN  [log_carat |-> log_carat, log_volume |-> log_volume,
         table |-> w.table, depth |-> w.depth,
         int_cut |-> log_carat * c_score,
         int_col |-> log_carat * col_score,
         int_cla |-> log_carat * cla_score]

\* PositionalFrame with the volume column forgotten
PositionalFrameNoVolume(w, sp) ==
    LET e == Engineer(w, sp)
    IN  [columns |-> <<"0", "1", "2", "3", "4", "5">>,
         row |-> <<e.log_carat, e.table, e.depth, e.int_cut, e.int_col, e.int_cla>>]

\* lines 192-196: pd.DataFrame([[...]]), columns labelled 0..6
PositionalFrame(w, sp) ==
    LET e == Engineer(w, sp)
    IN  [columns |-> <<"0", "1", "2", "3", "4", "5", "6">>,
         row |-> <<e.log_carat, e.log_volume, e.table, e.depth,
                   e.int_cut, e.int_col, e.int_cla>>]

\* lines 205-213: pd.DataFrame({...}) with explicit names
NamedFrame(w, sp) ==
    LET e == Engineer(w, sp)
    IN  [columns |-> AppOrder,
         row |-> <<e.log_carat, e.log_volume, e.table, e.depth,
                   e.int_cut, e.int_col, e.int_cla>>]

\* frame[names] raises KeyError when a name is not a column
ReorderRaises(frame, names) ==
    \E i \in 1..Len(names) : \A j \in 1..Len(frame.columns) : frame.columns[j] # names[i]

\* frame[names]
Reorder(frame, names) ==
    [columns |-> names, row |-> [i \in 1..Len(names) |-> Lookup(frame, names[i])]]

\* model.feature_name() raises AttributeError on an object without the method
FeatureNameRaises(m) == m.kind # "Booster"

\* the frame line 220 hands to model.predict
PredictArgument(positional, reordered) == positional

\* Caught for a handler written `except KeyError`
CaughtKeyErrorOnly(e) == e = "KeyError"

\* `except Exception` catches every exception the try block raises
Caught(e) == e \in {"AttributeError", "KeyError", "LightGBMError"}

\* values model.predict(...)[0] is explored over (log price, 1/1000)
PredLogs == {6908, 9798, 9810, 9826, 10309}

PriceLimit == 1850000
CaratLimit == 250

\* line 241
ExtrapolationWarning(p, carat) == p > PriceLimit \/ carat > CaratLimit

(***************************************************************************)
(* app.py: one run of the page script                                      *)
(***************************************************************************)
NoSpecs == [x |-> 0, y |-> 0, z |-> 0, vol |-> 0]
NoFig == [mesh |-> [X |-> <<>>, Y |-> <<>>, Z |-> <<>>], wire |-> <<>>,
          color |-> "", inclusions |-> [count |-> 0, point |-> <<>>]]

\* lines 145-158: the figure's data for one draw `inc` of the inclusions
AppFigure(w, inc) ==
    LET g == generate_diamond_geometry(w.table, w.depth, w.carat)
    IN  [mesh |-> [X |-> g.x, Y |-> g.y, Z |-> g.z],
         wire |-> g.lines,
         color |-> get_diamond_color(w.color),
         inclusions |-> inc]

Shown(e) == \E i \in 1..Len(display) : display[i] = e

\* what every run starts from: nothing computed, nothing shown
FreshRun ==
    /\ pc = "visual"
    /\ specs = NoSpecs
    /\ fig = NoFig
    /\ input_df = EmptyFrame
    /\ input_data = EmptyFrame
    /\ predict_calls = <<>>
    /\ price = -1
    /\ error = "none"
    /\ display = <<>>

Init ==
    /\ files \in [txt : TxtContents \cup {NoFile}, pkl : PklContents \cup {NoFile}]
    /\ model = load_diamond_model(files)
    /\ u = Defaults
    /\ predict_btn = FALSE
    /\ FreshRun
    /\ variant = "page"
    /\ figs = <<>>
    /\ frames = <<>>

\* lines 144-163: geometry, colour, inclusions, the traces, plotly_chart.
\* The drawn coordinates do not reach the rest of the run: the page state
\* keeps the figure with the number of inclusion markers only.
GenerateModel3D ==
    /\ pc = "visual"
    /\ LET g == generate_diamond_geometry(u.table, u.depth, u.carat)
       IN  \E inc \in generate_inclusions(u.clarity, g.radius) :
             /\ specs' = g.specs
             /\ fig' = AppFigure(u, [inc EXCEPT !.point = <<>>])
    /\ display' = Append(display, "figure")
    /\ pc' = "stats"
    /\ UNCHANGED <<files, model, u, predict_btn, input_df, input_data,
                   predict_calls, price, error, variant, figs, frames>>

\* lines 167-168
ModelWarning ==
    /\ pc = "stats"
    /\ display' = IF IsNone(model) THEN Append(display, "model_warning") ELSE display
    /\ pc' = "gate"
    /\ UNCHANGED <<files, model, u, predict_btn, specs, fig, input_df, input_data,
                   predict_calls, price, error, variant, figs, frames>>

\* lines 171-196: taken when `predict_btn or model`
FeatureEngineering ==
    /\ pc = "gate"
    /\ predict_btn \/ Truthy(model)
    /\ input_df' = PositionalFrame(u, specs)
    /\ pc' = "predict"
    /\ UNCHANGED <<files, model, u, predict_btn, specs, fig, input_data,
                   predict_calls, price, error, display, variant, figs, frames>>

\* line 171 false: straight to the footer
SkipPredictionLogic ==
    /\ pc = "gate"
    /\ ~(predict_btn \/ Truthy(model))
    /\ pc' = "footer"
    /\ UNCHANGED <<files, model, u, predict_btn, specs, fig, input_df, input_data,
                   predict_calls, price, error, display, variant, figs, frames>>

\* line 199 false
SkipPredict ==
    /\ pc = "predict"
    /\ ~Truthy(model)
    /\ pc' = "footer"
    /\ UNCHANGED <<files, model, u, predict_btn, specs, fig, input_df, input_data,
                   predict_calls, price, error, display, variant, figs, frames>>

\* an exception e raised inside the try block (lines 200-256): line 258-259
\* shows it, anything the handler does not catch ends the script run
Raise(e) ==
    /\ error' = e
    /\ IF Caught(e)
       THEN /\ display' = Append(display, "prediction_error")
            /\ pc' = "footer"
       ELSE /\ display' = Append(display, "traceback")
            /\ pc' = "aborted"

\* line 201 raises
FeatureNameFails ==
    /\ pc = "predict"
    /\ Truthy(model)
    /\ FeatureNameRaises(model)
    /\ Raise("AttributeError")
    /\ UNCHANGED <<files, model, u, predict_btn, specs, fig, input_df, input_data,
                   predict_calls, price, variant, figs, frames>>

\* lines 201-217: line 217 raises
ReorderFails ==
    /\ pc = "predict"
    /\ Truthy(model)
    /\ ~FeatureNameRaises(model)
    /\ ReorderRaises(NamedFrame(u, specs), model.features)
    /\ Raise("KeyError")
    /\ UNCHANGED <<files, model, u, predict_btn, specs, fig, input_df, input_data,
                   predict_calls, price, variant, figs, frames>>

\* lines 201-220: model.predict raises
PredictFails ==
    /\ pc = "predict"
    /\ Truthy(model)
    /\ ~FeatureNameRaises(model)
    /\ ~ReorderRaises(NamedFrame(u, specs), model.features)
    /\ input_data' = Reorder(NamedFrame(u, specs), model.features)
    /\ predict_calls' = Append(predict_calls, PredictArgument(input_df, input_data'))
    /\ Raise("LightGBMError")
    /\ UNCHANGED <<files, model, u, predict_btn, specs, fig, input_df,
                   price, variant, figs, frames>>

\* lines 201-221: model.predict returns
PredictReturns ==
    /\ pc = "predict"
    /\ Truthy(model)
    /\ ~FeatureNameRaises(model)
    /\ ~ReorderRaises(NamedFrame(u, specs), model.features)
    /\ input_data' = Reorder(NamedFrame(u, specs), model.features)
    /\ predict_calls' = Append(predict_calls, PredictArgument(input_df, input_data'))
    /\ \E pred_log \in PredLogs : price' = expm1(pred_log)
    /\ pc' = "result"
    /\ UNCHANGED <<files, model, u, predict_btn, specs, fig, input_df,
                   error, display, variant, figs, frames>>

\* lines 223-256
DisplayResult ==
    /\ pc = "result"
    /\ display' = display \o <<"success_log", "success_price", "price_card">>
                    \o (IF ExtrapolationWarning(price, u.carat)
                        THEN <<"extrapolation_warning">> ELSE <<>>)
                    \o <<"physics_check">>
    /\ pc' = "footer"
    /\ UNCHANGED <<files, model, u, predict_btn, specs, fig, input_df, input_data,
                   predict_calls, price, error, variant, figs, frames>>

\* lines 264-265
Footer ==
    /\ pc = "footer"
    /\ display' = Append(display, "footer")
    /\ pc' = "done"
    /\ UNCHANGED <<files, model, u, predict_btn, specs, fig, input_df, input_data,
                   predict_calls, price, error, variant, figs, frames>>

\* Streamlit runs the script again from the top; the cached model is kept
StartRun ==
    /\ pc' = "visual"
    /\ specs' = NoSpecs
    /\ fig' = NoFig
    /\ input_df' = EmptyFrame
    /\ input_data' = EmptyFrame
    /\ predict_calls' = <<>>
    /\ price' = -1
    /\ error' = "none"
    /\ display' = <<>>
    /\ UNCHANGED <<files, model, variant, figs, frames>>

\* the user moves one sidebar widget: a run with predict_btn False
ChangeWidget ==
    /\ pc \in {"done", "aborted"}
    /\ \E w \in Widgets : \E v \in WidgetValues[w] :
         /\ v # u[w]
         /\ u' = [u EXCEPT ![w] = v]
    /\ predict_btn' = FALSE
    /\ StartRun

\* the user clicks RUN PREDICTION: a run with predict_btn True
ClickPredict ==
    /\ pc \in {"done", "aborted"}
    /\ u' = u
    /\ predict_btn' = TRUE
    /\ StartRun

Next ==
    \/ GenerateModel3D
    \/ ModelWarning
    \/ FeatureEngineering
    \/ SkipPredictionLogic
    \/ SkipPredict
    \/ FeatureNameFails
    \/ ReorderFails
    \/ PredictFails
    \/ PredictReturns
    \/ DisplayResult
    \/ Footer
    \/ ChangeWidget
    \/ ClickPredict

Spec == Init /\ [][Next]_vars

(***************************************************************************)
(* utils/visualizer.py                                                     *)
(***************************************************************************)
_get_hex_color(grade) ==
    CASE grade = "D" -> "#F0F8FF" [] grade = "E" -> "#F5FAFA"
      [] grade = "F" -> "#FFFFFF" [] grade = "G" -> "#FFFFF0"
      [] grade = "H" -> "#FFFACD" [] grade = "I" -> "#FFF8DC"
      [] grade = "J" -> "#FAFAD2" [] OTHER -> "#FFFFFF"

\* visualizer.py's severity table
Severity(clarity_grade) ==
    CASE clarity_grade = "IF" -> 0 [] clarity_grade = "VVS1" -> 1
      [] clarity_grade = "VVS2" -> 3 [] clarity_grade = "VS1" -> 5
      [] clarity_grade = "VS2" -> 10 [] clarity_grade = "SI1" -> 20
      [] clarity_grade = "SI2" -> 40 [] clarity_grade = "I1" -> 80
      [] OTHER -> 0

\* The results _generate_inclusions can return, as for generate_inclusions.
_generate_inclusions(clarity_grade, radius_limit) ==
    LET count == Severity(clarity_grade)
    IN  IF count = 0 THEN {NoInclusions}
        ELSE {[count |-> count, point |-> <<ix, iy, iz>>] :
                ix \in Uniform(-((radius_limit * 6) \div 10), (radius_limit * 6) \div 10),
                iy \in Uniform(-((radius_limit * 6) \div 10), (radius_limit * 6) \div 10),
                iz \in Uniform(0, (radius_limit * 5) \div 10)}

\* lines 33-77: the physics and the vertex rings
Rings(carat, table_pct, depth_pct) ==
    LET diameter         == Diameter(carat)
        radius           == diameter \div 2
        total_depth      == (diameter * depth_pct) \div 10000
        crown_height     == (total_depth * 15) \div 100
        pavilion_depth   == (total_depth * 43) \div 100
        girdle_thickness == (total_depth * 2) \div 100
        table_radius     == (radius * table_pct) \div 10000
        z_table      == crown_height + girdle_thickness \div 2
        z_girdle_top == girdle_thickness \div 2
        z_girdle_bot == -(girdle_thickness \div 2)
        z_culet      == -pavilion_depth - girdle_thickness \div 2
    IN  [radius |-> radius, table_radius |-> table_radius,
         z_table |-> z_table, z_girdle_top |-> z_girdle_top,
         z_girdle_bot |-> z_girdle_bot, z_culet |-> z_culet,
         t  |-> [i \in Idx8 |-> <<Scale(table_radius, Cos8[i]),
                                  Scale(table_radius, Sin8[i]), z_table>>],
         gu |-> [i \in Idx8 |-> <<Scale(radius, Cos8[i]),
                                  Scale(radius, Sin8[i]), z_girdle_top>>],
         gl |-> [i \in Idx8 |-> <<Scale(radius, Cos8[i]),
                                  Scale(radius, Sin8[i]), z_girdle_bot>>],
         c  |-> <<0, 0, z_culet>>,
         ct |-> <<0, 0, z_table>>]

\* NewLists for lists created once at module level: every call appends to
\* what the calls before it left
SharedLists == IF figs = <<>> THEN [X |-> <<>>, Y |-> <<>>, Z |-> <<>>]
               ELSE figs[Len(figs)].mesh

\* line 81: X, Y, Z = [], [], []
NewLists == [X |-> <<>>, Y |-> <<>>, Z |-> <<>>]

\* lines 88-106: the six add_tri calls of segment i
SegmentTriangles(r, i) ==
    LET nxt == Nxt(i)
    IN  << <<r.ct, r.t[i], r.t[nxt]>>,
           <<r.t[i], r.gu[i], r.gu[nxt]>>,
           <<r.t[i], r.gu[nxt], r.t[nxt]>>,
           <<r.gu[i], r.gl[i], r.gl[nxt]>>,
           <<r.gu[i], r.gl[nxt], r.gu[nxt]>>,
           <<r.gl[i], r.c, r.gl[nxt]>> >>

RECURSIVE AddTriangles(_, _)
\* add_tri over a list of triangles: three entries per triangle in each list
AddTriangles(lists, tris) ==
    IF tris = <<>> THEN lists
    ELSE LET p == Head(tris)
         IN  AddTriangles([X |-> lists.X \o <<p[1][1], p[2][1], p[3][1]>>,
                           Y |-> lists.Y \o <<p[1][2], p[2][2], p[3][2]>>,
                           Z |-> lists.Z \o <<p[1][3], p[2][3], p[3][3]>>],
                          Tail(tris))

\* lines 81-106
BuildMesh(r) ==
    AddTriangles(NewLists,
        SegmentTriangles(r, 1) \o SegmentTriangles(r, 2) \o SegmentTriangles(r, 3)
        \o SegmentTriangles(r, 4) \o SegmentTriangles(r, 5) \o SegmentTriangles(r, 6)
        \o SegmentTriangles(r, 7) \o SegmentTriangles(r, 8))

\* val * 0.9
Shrink(vals) == [k \in 1..Len(vals) |-> Scale(vals[k], 9000)]

\* lines 147-164: the four wireframe segments of segment i
SegmentWire(r, i) ==
    << <<r.t[i], r.t[Nxt(i)]>>, <<r.gu[i], r.gu[Nxt(i)]>>,
       <<r.t[i], r.gu[i]>>, <<r.gl[i], r.c>> >>

\* The figures create_diamond_fig can return: one per draw of the inclusions.
create_diamond_fig(carat, table_pct, depth_pct, color_grade, clarity_grade) ==
    LET r    == Rings(carat, table_pct, depth_pct)
        mesh == BuildMesh(r)
        wire == SegmentWire(r, 1) \o SegmentWire(r, 2) \o SegmentWire(r, 3)
                \o SegmentWire(r, 4) \o SegmentWire(r, 5) \o SegmentWire(r, 6)
                \o SegmentWire(r, 7) \o SegmentWire(r, 8)
    IN  {[inner |-> [X |-> Shrink(mesh.X), Y |-> Shrink(mesh.Y), Z |-> Shrink(mesh.Z)],
          mesh |-> mesh,
          wire |-> wire,
          color |-> _get_hex_color(color_grade),
          inclusions |-> inc] :
            inc \in _generate_inclusions(clarity_grade, r.radius)}

(***************************************************************************)
(* The figure generators invoked repeatedly on the same inputs             *)
(***************************************************************************)
MaxCalls == 2

FigInputs ==
    [cut : {"Ideal"}, color : {"G"}, clarity : Clarities,
     carat : {20, 500}, depth : {5000, 7500}, table : {5000, 8000}]

InitFig ==
    /\ files = [txt |-> NoFile, pkl |-> NoFile]
    /\ model = None
    /\ u \in FigInputs
    /\ predict_btn = FALSE
    /\ FreshRun
    /\ variant \in {"visualizer", "app"}
    /\ figs = <<>>
    /\ frames = <<>>

\* a caller invokes utils.visualizer.create_diamond_fig
InvokeCreateDiamondFig(limit) ==
    /\ variant = "visualizer"
    /\ Len(figs) < limit
    /\ \E f \in create_diamond_fig(u.carat, u.table, u.depth, u.color, u.clarity) :
         figs' = Append(figs, f)
    /\ UNCHANGED <<files, model, u, predict_btn, pc, specs, fig, input_df,
                   input_data, predict_calls, price, error, display, variant, frames>>

\* app.py builds its figure (lines 145-158)
InvokeAppFigure(limit) ==
    /\ variant = "app"
    /\ Len(figs) < limit
    /\ \E inc \in generate_inclusions(u.clarity,
                    generate_diamond_geometry(u.table, u.depth, u.carat).radius) :
         figs' = Append(figs, AppFigure(u, inc))
    /\ UNCHANGED <<files, model, u, predict_btn, pc, specs, fig, input_df,
                   input_data, predict_calls, price, error, display, variant, frames>>

NextFig == InvokeCreateDiamondFig(MaxCalls) \/ InvokeAppFigure(MaxCalls)

SpecFig == InitFig /\ [][NextFig]_vars

InitMesh == InitFig /\ variant = "visualizer"

NextMesh == InvokeCreateDiamondFig(1)

SpecMesh == InitMesh /\ [][NextMesh]_vars

(***************************************************************************)
(* utils/preprocessing.py, and the two feature pipelines side by side      *)
(***************************************************************************)
calculate_physics(carat, depth_pct) ==
    LET diameter       == Diameter(carat)
        total_depth_mm == (diameter * depth_pct) \div 10000
        est_volume     == diameter * diameter * total_depth_mm
    IN  [diameter |-> diameter, depth_mm |-> total_depth_mm,
         vol |-> (est_volume + 5000) \div 10000]

\* prepare_input_df with the interaction values listed in app.py's order
\* under the keys of its own order
prepare_input_df_misaligned(u_carat, u_cut, u_color, u_clarity, u_depth, u_table, u_vol) ==
    LET log_carat  == log1p(u_carat)
        log_volume == log1p(u_vol)
    IN  [columns |-> <<"log_carat", "log_volume", "table", "depth",
                       "int_carat_color", "int_carat_clarity", "int_carat_cut">>,
         row |-> <<log_carat, log_volume, u_table, u_depth,
                   log_carat * CUT_MAP[u_cut], log_carat * COLOR_MAP[u_color],
                   log_carat * CLARITY_MAP[u_clarity]>>]

prepare_input_df(u_carat, u_cut, u_color, u_clarity, u_depth, u_table, u_vol) ==
    LET log_carat  == log1p(u_carat)
        log_volume == log1p(u_vol)
        c_score    == CUT_MAP[u_cut]
        col_score  == COLOR_MAP[u_color]
        cla_score  == CLARITY_MAP[u_clarity]
        int_cut    == log_carat * c_score
        int_col    == log_carat * col_score
        int_cla    == log_carat * cla_score
    IN  [columns |-> <<"log_carat", "log_volume", "table", "depth",
                       "int_carat_color", "int_carat_clarity", "int_carat_cut">>,
         row |-> <<log_carat, log_volume, u_table, u_depth, int_col, int_cla, int_cut>>]

PrepInputs ==
    [cut : Cuts, color : Colors, clarity : Clarities,
     carat : {20, 100, 500}, depth : {5000, 6150}, table : {5700, 8000}]

InitPrep ==
    /\ files = [txt |-> NoFile, pkl |-> NoFile]
    /\ model = None
    /\ u \in PrepInputs
    /\ predict_btn = FALSE
    /\ FreshRun
    /\ variant = "pipelines"
    /\ figs = <<>>
    /\ frames = [pipeline |-> EmptyFrame, inline |-> EmptyFrame]

\* a caller runs calculate_physics and prepare_input_df on the widget values
RunPipeline ==
    /\ frames.pipeline = EmptyFrame
    /\ frames' = [frames EXCEPT !.pipeline =
                    prepare_input_df(u.carat, u.cut, u.color, u.clarity, u.depth,
                                     u.table, calculate_physics(u.carat, u.depth).vol)]
    /\ UNCHANGED <<files, model, u, predict_btn, pc, specs, fig, input_df,
                   input_data, predict_calls, price, error, display, variant, figs>>

\* app.py runs its inline feature engineering on the same widget values
RunInline ==
    /\ frames.inline = EmptyFrame
    /\ frames' = [frames EXCEPT !.inline =
                    NamedFrame(u, generate_diamond_geometry(u.table, u.depth, u.carat).specs)]
    /\ UNCHANGED <<files, model, u, predict_btn, pc, specs, fig, input_df,
                   input_data, predict_calls, price, error, display, variant, figs>>

NextPrep == RunPipeline \/ RunInline

SpecPrep == InitPrep /\ [][NextPrep]_vars

(***************************************************************************)
(* Properties                                                              *)
(***************************************************************************)
IsPermutationOfSeven(names) ==
    /\ Len(names) = 7
    /\ {names[i] : i \in 1..Len(names)} = FeatureNames

\* C1: every frame handed to model.predict holds, at each column position i,
\* the value of the feature the model names at position i, whenever the
\* model's feature names are a permutation of the seven.
C1_ColumnAlignment ==
    \A k \in 1..Len(predict_calls) :
        IsPermutationOfSeven(model.features) =>
            \A i \in 1..7 :
                predict_calls[k].row[i] = Lookup(NamedFrame(u, specs), model.features[i])

\* C3: once the try block has raised, the run shows the prediction error,
\* shows no price card, extrapolation warning or physics check, is never
\* aborted, and has shown the footer when it is done.
C3_FailureContained ==
    error # "none" =>
        /\ pc \in {"footer", "done"}
        /\ Shown("prediction_error")
        /\ ~Shown("price_card")
        /\ ~Shown("extrapolation_warning")
        /\ ~Shown("physics_check")
        /\ pc = "done" => Shown("footer")

C3_Witness ==
    /\ pc = "done"
    /\ error = "KeyError"
    /\ Shown("prediction_error")
    /\ Shown("footer")

\* C5 as stated: model.predict is called at most once per run, with a one-row
\* frame of seven columns, and exactly once in every finished run with a
\* loaded model.
C5_PredictExactlyOnce ==
    /\ Len(predict_calls) <= 1
    /\ \A k \in 1..Len(predict_calls) :
         Len(predict_calls[k].columns) = 7 /\ Len(predict_calls[k].row) = 7
    /\ (pc = "done" /\ model # None) => Len(predict_calls) = 1

\* C5 as amended: model.predict is called at most once per run, with a
\* one-row frame of seven columns; past the prediction step it has been
\* called exactly once when a model is loaded and neither reading the feature
\* names nor the reorder raised, button or no button; and never when no model
\* is loaded or one of those two raised.
C5_PredictOncePerRun ==
    /\ Len(predict_calls) <= 1
    /\ \A k \in 1..Len(predict_calls) :
         Len(predict_calls[k].columns) = 7 /\ Len(predict_calls[k].row) = 7
    /\ (pc \in {"result", "footer", "done"} /\ model # None
            /\ error \notin {"AttributeError", "KeyError"})
         => Len(predict_calls) = 1
    /\ (model = None \/ error \in {"AttributeError", "KeyError"})
         => Len(predict_calls) = 0

C5_Witness ==
    /\ pc = "done"
    /\ ~predict_btn
    /\ model # None
    /\ Len(predict_calls) = 1
    /\ Shown("price_card")

\* C7: after a successful prediction the extrapolation warning is shown
\* exactly when the price is above $18,000 or the carat is above 2.5.
C7_WarningAbove18000 ==
    Shown("physics_check") =>
        (Shown("extrapolation_warning") <=> (price > 1800000 \/ u.carat > 250))

\* C8: in a run with neither model file present no model is loaded, the
\* missing-model warning is shown once the prediction column is reached, no
\* price card, prediction error or extrapolation warning is ever shown,
\* model.predict is not called, and the figure is rendered, button or no
\* button.
C8_NoModel ==
    (files.txt = NoFile /\ files.pkl = NoFile) =>
        /\ model = None
        /\ pc \in {"gate", "predict", "footer", "done"} => Shown("model_warning")
        /\ pc # "visual" => Shown("figure") /\ fig # NoFig
        /\ ~Shown("price_card")
        /\ ~Shown("prediction_error")
        /\ ~Shown("extrapolation_warning")
        /\ predict_calls = <<>>
        /\ pc # "aborted"

C8_Witness ==
    /\ files.txt = NoFile /\ files.pkl = NoFile
    /\ predict_btn
    /\ pc = "done"
    /\ Shown("model_warning")
    /\ Shown("figure")

\* the facet envelope of the figure the driver's generator builds
Envelope ==
    IF variant = "visualizer"
    THEN LET r == Rings(u.carat, u.table, u.depth)
         IN  [radius |-> r.radius, table_radius |-> r.table_radius,
              z_table |-> r.z_table, z_girdle_top |-> r.z_girdle_top,
              z_girdle_bot |-> r.z_girdle_bot, z_culet |-> r.z_culet]
    ELSE LET g == generate_diamond_geometry(u.table, u.depth, u.carat)
         IN  [radius |-> g.radius, table_radius |-> g.table_radius,
              z_table |-> g.z_table, z_girdle_top |-> g.z_girdle,
              z_girdle_bot |-> g.z_girdle, z_culet |-> g.z_culet]

\* radius of the envelope at height z (-1 above the table and below the culet)
EnvelopeRadius(e, z) ==
    IF z > e.z_table \/ z < e.z_culet THEN -1
    ELSE IF z > e.z_girdle_top
         THEN e.radius - ((e.radius - e.table_radius) * (z - e.z_girdle_top))
                            \div (e.z_table - e.z_girdle_top)
    ELSE IF z >= e.z_girdle_bot THEN e.radius
    ELSE (e.radius * (z - e.z_culet)) \div (e.z_girdle_bot - e.z_culet)

Inside(p, e) ==
    LET rad == EnvelopeRadius(e, p[3])
    IN  rad >= 0 /\ p[1] * p[1] + p[2] * p[2] <= rad * rad

\* C2: every inclusion point a generator returns lies inside the facet
\* envelope: not above the table, not below the culet, and no farther from
\* the axis than the envelope's radius at its height.
C2_InclusionsInsideEnvelope ==
    \A k \in 1..Len(figs) :
        figs[k].inclusions.count > 0 => Inside(figs[k].inclusions.point, Envelope)

\* C4 as stated: any two invocations on the same inputs return identical
\* figure data.
C4_SameFigure ==
    \A i, j \in 1..Len(figs) : figs[i] = figs[j]

\* C4 as amended: any two invocations on the same inputs return the same
\* mesh vertices, wireframe, colour and number of inclusion points; the
\* whole figure is the same when the clarity grade is IF.
C4_SameMesh ==
    \A i, j \in 1..Len(figs) :
        /\ figs[i].mesh = figs[j].mesh
        /\ figs[i].wire = figs[j].wire
        /\ figs[i].color = figs[j].color
        /\ figs[i].inclusions.count = figs[j].inclusions.count
        /\ u.clarity = "IF" => figs[i] = figs[j]

C4_Witness ==
    /\ variant = "visualizer"
    /\ Len(figs) = 2
    /\ figs[1].mesh = figs[2].mesh /\ Len(figs[1].mesh.X) = 144
    /\ figs[1].inclusions.point # figs[2].inclusions.point

\* corner number k of the mesh lists
Corner(m, k) == <<m.X[k], m.Y[k], m.Z[k]>>

\* the three edges of triangle number t of the mesh lists
TriangleEdges(m, t) ==
    {{Corner(m, 3 * t - 2), Corner(m, 3 * t - 1)},
     {Corner(m, 3 * t - 1), Corner(m, 3 * t)},
     {Corner(m, 3 * t - 2), Corner(m, 3 * t)}}

\* C6: the mesh of create_diamond_fig has 144 entries in each of X, Y, Z (48
\* triangles, 6 per segment); its corners are the table centre, the table
\* ring, the two girdle rings and the culet only; every triangle has three
\* edges and every edge belongs to exactly two triangles.
C6_ClosedSurface ==
    \A k \in 1..Len(figs) :
        LET m == figs[k].mesh
            r == Rings(u.carat, u.table, u.depth)
            edges == [t \in 1..48 |-> TriangleEdges(m, t)]
        IN  /\ Len(m.X) = 144 /\ Len(m.Y) = 144 /\ Len(m.Z) = 144
            /\ {Corner(m, c) : c \in 1..144}
                 = {r.ct, r.c} \cup {r.t[i] : i \in Idx8}
                     \cup {r.gu[i] : i \in Idx8} \cup {r.gl[i] : i \in Idx8}
            /\ \A t \in 1..48 :
                 /\ Cardinality(edges[t]) = 3
                 /\ \A e \in edges[t] :
                      Cardinality({t2 \in 1..48 : e \in edges[t2]}) = 2

C6_Witness ==
    /\ Len(figs) = 1
    /\ Len(figs[1].mesh.X) = 144
    /\ TriangleEdges(figs[1].mesh, 43) \cap TriangleEdges(figs[1].mesh, 1) # {}

\* C9: the two pipelines use the same cut, color and clarity encodings, and
\* from the same widget values they build one-row frames with the same seven
\* feature names and the same value under each name.
C9_PipelinesAgree ==
    /\ CUT_MAP = cut_map /\ COLOR_MAP = color_map /\ CLARITY_MAP = clarity_map
    /\ (frames.pipeline # EmptyFrame /\ frames.inline # EmptyFrame) =>
         /\ Len(frames.pipeline.columns) = 7 /\ Len(frames.pipeline.row) = 7
         /\ {frames.pipeline.columns[i] : i \in 1..7} = FeatureNames
         /\ {frames.inline.columns[i] : i \in 1..7} = FeatureNames
         /\ \A n \in FeatureNames :
              Lookup(frames.pipeline, n) = Lookup(frames.inline, n)

C9_Witness ==
    /\ frames.pipeline # EmptyFrame /\ frames.inline # EmptyFrame
    /\ frames.pipeline.columns # frames.inline.columns
    /\ Lookup(frames.pipeline, "int_carat_cut") # Lookup(frames.pipeline, "int_carat_color")

=============================================================================
